---- MODULE Spec2Model ----
(***************************************************************************)
(* Binary 3D-LUT converters of tools/convert_oppo_luts.py and              *)
(* tools/convert_bin_to_cube.py.                                           *)
(*                                                                         *)
(* An input file is a descriptor of the bytes the converters look at: its  *)
(* total length, whether it starts with the 8-byte magic, the two facts    *)
(* the text test reads, and the little-endian header words.  Python        *)
(* integers are unbounded; every value of the model stays below 2^31.      *)
(***************************************************************************)
EXTENDS Integers, Sequences, FiniteSets, TLC

VARIABLES
    data,        \* the input buffer of the call under way (a file descriptor)
    pc,          \* calls: "ready", then the name of the function that returned;
                 \* batch: "start", "loop", "done"
    ret,         \* what the last call returned or raised
    out,         \* the file the last call wrote, NoFile if none
    fs,          \* batch: the directory tree, path -> [ext, content]
    tool,        \* batch: the program that runs, "main" or "process_directory"
    bin_files,   \* batch: the list of discovered paths
    idx,         \* batch: number of loop iterations completed
    attempted,   \* batch: the paths handed to the converter, in call order
    successes,   \* batch: main's counter
    results,     \* batch: process_directory's converted originals (all genres)
    failed,      \* batch: process_directory's failed list; under main, the paths
                 \* of the [FAIL] lines printed
    entries,     \* repair: the entry list of convert_bin_to_cube, explicit
    lut_size,    \* repair: the lut_size it was extracted for
    extracted,   \* repair: the list as extract_byte_lut returned it
    rpc,         \* repair: "extracted", then "failed" or "written"
    payload,     \* iter_values: the payload it reads, explicit bytes
    gen,         \* iter_values: the generator's frame [size, order, b, g, r]
    yielded,     \* iter_values: the triples yielded so far, each with its idx
    ipc,         \* iter_values: "running", then "exhausted" or "IndexError"
    lut_data,    \* extraction: the bytes the loop reads, explicit
    loc,         \* extraction: the locals [fn, lut_size, channels, i]
    collected,   \* extraction: the entries appended so far, each with its offset
    xpc          \* extraction: "loop", then "returned" or "IndexError"

vars == <<data, pc, ret, out, fs, tool, bin_files, idx, attempted, successes,
          results, failed, entries, lut_size, extracted, rpc,
          payload, gen, yielded, ipc, lut_data, loc, collected, xpc>>

callVars == <<data, pc, ret, out>>
batchVars == <<fs, tool, bin_files, idx, attempted, successes, results, failed>>
repairVars == <<entries, lut_size, extracted, rpc>>
iterVars == <<payload, gen, yielded, ipc>>
extractVars == <<lut_data, loc, collected, xpc>>

(***************************************************************************)
(* Values                                                                  *)
(***************************************************************************)
None == [kind |-> "None"]
NoFile == [kind |-> "NoFile"]
Raise(exc) == [kind |-> "raise", exc |-> exc]
Raised(r) == r.kind = "raise"

Cube3(n) == n * n * n

\* convert_oppo_luts.py:68  data_offset = 0xB0
DefaultDataOffset == 176
\* convert_oppo_luts.py:98  abs(remaining - expected) <= 4
Tolerance == 4
\* convert_bin_to_cube.py:26  len(data) < 48
MinHeaderLen == 48
\* convert_oppo_luts.py:69  len(data) >= 0x30
OffsetFieldEnd == 48

\* convert_oppo_luts.py:81 and :95
CandidateSizes == <<32, 33, 17, 16, 21, 25, 20>>
ToleranceSizes == <<20, 17, 21, 25>>
ToleranceChannels == <<3, 4>>

Abs(x) == IF x < 0 THEN -x ELSE x

(***************************************************************************)
(* convert_oppo_luts.parse_ms_lut_header                                   *)
(***************************************************************************)
Layout(d, size, off, ch) ==
    [kind |-> "header", version |-> d.version, lut_size |-> size,
     file_size |-> d.len, data_offset |-> off, channels |-> ch]

\* struct.unpack('<Q', data[0x28:0x30]): the 64-bit field is data_lo + 2^32 * data_hi.
\* It is used only in "0 < field < len(data)"; len(data) < 2^31, so a field with a
\* non-zero high word is never below it.
OffsetFieldUsable(d) ==
    /\ d.len >= OffsetFieldEnd
    /\ (d.data_lo > 0 \/ d.data_hi > 0)
    /\ d.data_hi = 0
    /\ d.data_lo < d.len

HeaderDataOffset(d) ==
    IF OffsetFieldUsable(d) THEN d.data_lo ELSE DefaultDataOffset

\* for size in [32, 33, 17, 16, 21, 25, 20]: first size whose size^3*3 or size^3*4
\* equals remaining; channels = 3 if remaining == expected_rgb else 4
RECURSIVE ExactScan(_, _, _)
ExactScan(sizes, k, remaining) ==
    IF k > Len(sizes) THEN None
    ELSE LET size == sizes[k]
             expected_rgb == Cube3(size) * 3
             expected_rgba == Cube3(size) * 4
         IN IF remaining = expected_rgb \/ remaining = expected_rgba
            THEN [kind |-> "match", lut_size |-> size,
                  channels |-> IF remaining = expected_rgb THEN 3 ELSE 4]
            ELSE ExactScan(sizes, k + 1, remaining)


\* ToleranceScan with a strict comparison: abs(remaining - expected) < 4
RECURSIVE ToleranceScan_Strict(_, _, _, _)
ToleranceScan_Strict(sizes, k, c, remaining) ==
    IF k > Len(sizes) THEN None
    ELSE IF c > Len(ToleranceChannels) THEN ToleranceScan_Strict(sizes, k + 1, 1, remaining)
    ELSE LET size == sizes[k]
             ch == ToleranceChannels[c]
             expected == Cube3(size) * ch
         IN IF Abs(remaining - expected) < Tolerance
            THEN [kind |-> "match", lut_size |-> size, channels |-> ch]
            ELSE ToleranceScan_Strict(sizes, k, c + 1, remaining)

\* for size in [20, 17, 21, 25]: for ch in [3, 4]: abs(remaining - size^3*ch) <= 4
RECURSIVE ToleranceScan(_, _, _, _)
ToleranceScan(sizes, k, c, remaining) ==
    IF k > Len(sizes) THEN None
    ELSE IF c > Len(ToleranceChannels) THEN ToleranceScan(sizes, k + 1, 1, remaining)
    ELSE LET size == sizes[k]
             ch == ToleranceChannels[c]
             expected == Cube3(size) * ch
         IN IF Abs(remaining - expected) <= Tolerance
            THEN [kind |-> "match", lut_size |-> size, channels |-> ch]
            ELSE ToleranceScan(sizes, k, c + 1, remaining)

\* Fallback: guess from file size
BucketSize(file_size) ==
    IF file_size <= 14900 THEN 17
    ELSE IF file_size <= 17000 THEN 16
    ELSE IF file_size <= 28000 THEN 21
    ELSE IF file_size <= 100000 THEN 32
    ELSE IF file_size <= 135000 THEN 32
    ELSE 33


\* InferLayout with the file-size bucket consulted before the tolerance tier
InferLayout_BucketFirst(d, data_offset) ==
    LET remaining == d.len - data_offset
        exact == ExactScan(CandidateSizes, 1, remaining)
    IN IF exact.kind = "match" THEN Layout(d, exact.lut_size, data_offset, exact.channels)
       ELSE Layout(d, BucketSize(d.len), data_offset, 3)

InferLayout(d, data_offset) ==
    LET remaining == d.len - data_offset
        exact == ExactScan(CandidateSizes, 1, remaining)
        tol == ToleranceScan(ToleranceSizes, 1, 1, remaining)
    IN IF exact.kind = "match" THEN Layout(d, exact.lut_size, data_offset, exact.channels)
       ELSE IF tol.kind = "match" THEN Layout(d, tol.lut_size, data_offset, tol.channels)
       ELSE Layout(d, BucketSize(d.len), data_offset, 3)

parse_ms_lut_header(d) ==
    IF ~d.magic THEN None
    \* struct.unpack('<I', data[8:12]) and data[12:16] need 4 bytes each
    ELSE IF d.len < 16 THEN Raise("struct.error")
    ELSE InferLayout(d, HeaderDataOffset(d))

(***************************************************************************)
(* convert_oppo_luts: byte extraction, the 90% test, the repair            *)
(***************************************************************************)
Min(a, b) == IF a < b THEN a ELSE b

\* for i in range(lut_size ** 3): offset = i * channels;
\*     if offset + 3 > len(data): break
\* The test is monotone in i, so the loop appends an entry for every i below both
\* lut_size^3 and the first i with i * channels + 3 > n_bytes.
ExtractCount(n_bytes, size, channels) ==
    Min(Cube3(size), IF n_bytes < 3 THEN 0 ELSE (n_bytes - 3) \div channels + 1)

\* data[data_offset:] of a buffer of d.len bytes (data_offset >= 0)
SliceFromLen(n_bytes, from) == IF from >= n_bytes THEN 0 ELSE n_bytes - from

\* extract_lut_data(data, header): number of entries returned
ExtractLutDataCount(d, header) ==
    ExtractCount(SliceFromLen(d.len, header.data_offset), header.lut_size, header.channels)

\* header is None: lut_size from the file size
RawLutSize(file_size) ==
    IF file_size = 131072 THEN 32
    ELSE IF file_size = 98304 THEN 32
    ELSE IF file_size = 107991 THEN 33
    ELSE IF file_size = 16384 THEN 16
    ELSE 17

\* 3 if file_size % 4 != 0 else 4
RawChannels(file_size) == IF file_size % 4 # 0 THEN 3 ELSE 4


\* NotEnoughEntries with the threshold at 80%
NotEnoughEntries_80(n, size) == n = 0 \/ 10 * n < 8 * Cube3(size)

\* if not entries or len(entries) < lut_size ** 3 * 0.9
\* (n < N * 0.9 in doubles is 10 n < 9 N for every N = size^3 below 2^31 / 10 that
\* the converters reach: N * 0.9 is never rounded across an integer)
NotEnoughEntries(n, size) == n = 0 \/ 10 * n < 9 * Cube3(size)


\* RepairedCount without the padding branch
RepairedCount_NoPad(n, size) ==
    LET expected == Cube3(size)
    IN IF n > expected THEN expected ELSE n

\* lines 288-298 on the length of the list: cut to expected, or append until it
\* has expected entries
RepairedCount(n, size) ==
    LET expected == Cube3(size)
    IN IF n > expected THEN expected
       ELSE IF n < expected THEN n + (expected - n)
       ELSE n

\* data[:20].isascii() and ('LUT_3D_SIZE' in text_start or 'TITLE' in text_start)
IsCubeText(d) == d.ascii20 /\ d.keyword

\* convert_bin_to_cube(bin_path, output_dir) of convert_oppo_luts.py: the returned
\* tuple and the file written. hdr, lut_size, channels and n_entries are the
\* locals of the call at its return.
Decoded(d) ==
    LET header == parse_ms_lut_header(d)
    IN IF Raised(header) THEN [kind |-> "raise", exc |-> header.exc, hdr |-> header]
       ELSE IF header.kind = "None"
       THEN [kind |-> "decoded", hdr |-> header, lut_size |-> RawLutSize(d.len),
             channels |-> RawChannels(d.len),
             n_entries |-> ExtractCount(d.len, RawLutSize(d.len), RawChannels(d.len))]
       ELSE [kind |-> "decoded", hdr |-> header, lut_size |-> header.lut_size,
             channels |-> header.channels,
             n_entries |-> ExtractLutDataCount(d, header)]

Failure(dec, why) ==
    [ret |-> [kind |-> "return", success |-> FALSE, why |-> why, passthrough |-> FALSE,
              locals |-> dec],
     out |-> NoFile]

convert_bin_to_cube(d) ==
    IF IsCubeText(d)
    THEN [ret |-> [kind |-> "return", success |-> TRUE, why |-> "copied",
                   passthrough |-> TRUE, locals |-> None],
          out |-> [kind |-> "copy", len |-> d.len]]
    ELSE LET dec == Decoded(d)
         IN IF dec.kind = "raise" THEN Failure(dec, "exception")
            ELSE IF NotEnoughEntries(dec.n_entries, dec.lut_size)
            THEN Failure(dec, "not enough entries")
            ELSE [ret |-> [kind |-> "return", success |-> TRUE, why |-> "converted",
                           passthrough |-> FALSE, locals |-> dec],
                  \* write_cube_file: LUT_3D_SIZE lut_size, then one line per entry
                  out |-> [kind |-> "cube", lut_size |-> dec.lut_size,
                           lines |-> RepairedCount(dec.n_entries, dec.lut_size),
                           padded |-> RepairedCount(dec.n_entries, dec.lut_size)
                                      - Min(dec.n_entries, Cube3(dec.lut_size))]]

(***************************************************************************)
(* convert_bin_to_cube.py: read_ms_lut, read_raw_rgba, iter_values,        *)
(* convert_file                                                            *)
(***************************************************************************)
read_ms_lut(d) ==
    IF d.len < MinHeaderLen \/ ~d.magic THEN Raise("missing .MS-LUT header")
    ELSE LET size == d.size
             expected_axis_end == d.axis_offset + size * 4
             expected_data_len == Cube3(size) * 3
         IN IF d.len < expected_axis_end THEN Raise("axis block truncated")
            ELSE IF d.len < d.data_lo + expected_data_len THEN Raise("payload truncated")
            ELSE [kind |-> "lut", size |-> size,
                  order |-> IF d.order_flag # 0 THEN "rgb" ELSE "bgr",
                  \* memoryview(data)[data_offset : data_offset + expected_data_len]
                  payload_len |-> Min(d.len, d.data_lo + expected_data_len) - d.data_lo]

\* round(texel_count ** (1.0 / 3.0)): the n with (2n-1)^3 <= 8 t < (2n+1)^3
RECURSIVE CbrtRoundFrom(_, _)
CbrtRoundFrom(n, t) ==
    IF Cube3(2 * n + 1) <= 8 * t THEN CbrtRoundFrom(n + 1, t) ELSE n

CbrtRound(t) == CbrtRoundFrom(0, t)


\* read_raw_rgba without the perfect-cube test
read_raw_rgba_NoCubeTest(d) ==
    IF d.len % 4 # 0 THEN Raise("byte length not divisible by 4 for RGBA data")
    ELSE [kind |-> "lut", size |-> CbrtRound(d.len \div 4), order |-> "rgba",
          payload_len |-> d.len]

read_raw_rgba(d) ==
    IF d.len % 4 # 0 THEN Raise("byte length not divisible by 4 for RGBA data")
    ELSE LET texel_count == d.len \div 4
             size == CbrtRound(texel_count)
         IN IF Cube3(size) # texel_count
            THEN Raise("byte length is not a perfect cube of RGBA texels")
            ELSE [kind |-> "lut", size |-> size, order |-> "rgba", payload_len |-> d.len]

Stride(order) == IF order = "rgba" THEN 4 ELSE 3

\* iter_values(size, payload, order): the number of triples yielded.  The three
\* nested loops read payload[idx .. idx+2] at idx = t * stride for each texel index
\* t in 0 .. size^3-1 (once each); a read past the payload raises IndexError.
IterValuesCount(size, payload_len, order) ==
    IF order \notin {"rgb", "bgr", "rgba"} THEN Raise("unsupported order")
    ELSE IF Cube3(size) = 0 THEN [kind |-> "yielded", n |-> 0]
    ELSE IF (Cube3(size) - 1) * Stride(order) + 3 > payload_len THEN Raise("IndexError")
    ELSE [kind |-> "yielded", n |-> Cube3(size)]

\* convert_file(path): ms is what read_ms_lut returned or raised
convert_file(d) ==
    LET ms == read_ms_lut(d)
        lut == IF Raised(ms) THEN read_raw_rgba(d) ELSE ms
        source_type == IF Raised(ms) THEN "rgba" ELSE "ms-lut"
    IN IF Raised(lut)
       THEN [ret |-> [kind |-> "raise", exc |-> lut.exc, ms |-> ms], out |-> NoFile]
       ELSE LET it == IterValuesCount(lut.size, lut.payload_len, lut.order)
            IN IF Raised(it)
               THEN [ret |-> [kind |-> "raise", exc |-> it.exc, ms |-> ms],
                     out |-> [kind |-> "partial", lut_size |-> lut.size]]
               ELSE [ret |-> [kind |-> "return", size |-> lut.size,
                              source_type |-> source_type, ms |-> ms],
                     out |-> [kind |-> "cube", lut_size |-> lut.size, lines |-> it.n]]

(***************************************************************************)
(* The input files                                                         *)
(***************************************************************************)
\* Widest distance of a remainder length from a candidate's size^3 * channels
MaxDelta == 5
\* Largest cube size a header declares that is outside the candidate list
MaxDeclared == 10

RawFile(len, ascii20, keyword) ==
    [len |-> len, magic |-> FALSE, ascii20 |-> ascii20, keyword |-> keyword,
     version |-> 0, size |-> 0, order_flag |-> 0, axis_offset |-> 0,
     data_lo |-> 0, data_hi |-> 0]

\* A file that starts with b'.MS-LUT '. A header word the file is too short to
\* hold is 0 in its descriptor. Its first 20 bytes (magic, version, size, one
\* unread word) are ASCII here; keyword says whether TITLE or LUT_3D_SIZE is
\* among the first 500 bytes.
MsFile(len, keyword, size, order_flag, axis_offset, data_lo, data_hi) ==
    [len |-> len, magic |-> TRUE, ascii20 |-> TRUE, keyword |-> keyword,
     version |-> IF len >= 12 THEN 2 ELSE 0,
     size |-> IF len >= 16 THEN size ELSE 0,
     order_flag |-> IF len >= 28 THEN order_flag ELSE 0,
     axis_offset |-> IF len >= 36 THEN axis_offset ELSE 0,
     data_lo |-> IF len >= 44 THEN data_lo ELSE 0,
     data_hi |-> IF len >= 48 THEN data_hi ELSE 0]

CandidateSet == {CandidateSizes[k] : k \in 1..Len(CandidateSizes)}
Deltas == (0 - MaxDelta)..MaxDelta
HeaderOffsets == {48, DefaultDataOffset}

\* Headerless buffers: empty and tiny ones, RGBA cubes, the sizes the raw branch
\* names, and lengths around 17^3 * 3 and around 90% of it.
RawLengths ==
    {0, 2, 3, 4, 7, 32, 108, 500, 1001, 13262, 13263, 13264, 13265, 13267, 13271, 13500,
     16384, 19652, 98304, 107991, 131072}
    \cup {Cube3(17) * 3 + dl : dl \in Deltas}

\* b''.isascii() is True: the empty buffer passes the ASCII test.
RawFiles ==
    {RawFile(n, n = 0, FALSE) : n \in RawLengths}
    \cup {RawFile(n, TRUE, k) : n \in {500, 14739, 98304}, k \in BOOLEAN}

\* Magic-headed buffers too short for a whole header, or shorter than the
\* default data offset.
ShortMsFiles ==
    {MsFile(n, FALSE, 17, 1, 48, 48, 0) :
        n \in {8, 9, 11, 12, 15, 16, 20, 47, 48, 49, 100, 108, 175, 176, 177, 256}}

\* Magic-headed buffers whose payload is (close to) size^3 * channels bytes for a
\* candidate size c behind a header of off bytes: the header declares c or 0, its
\* axis table lies inside or past the file, and its data offset field holds off,
\* 0, or an offset past the end of the file.
MsVariants(off, c, n) ==
    {MsFile(n, FALSE, decl, 1, ax, dfield, 0) :
        decl \in {c, 0}, ax \in {48, n + 1}, dfield \in {off, 0, n + 16}}

CandidateMsFiles ==
    UNION {MsVariants(off, c, off + Cube3(c) * ch + dl) :
             off \in HeaderOffsets, c \in CandidateSet, ch \in {3, 4}, dl \in Deltas}

\* Headers that declare a size outside the candidate list, with exactly
\* size^3 * channels bytes of payload behind them.
DeclaredMsFiles ==
    {MsFile(off + Cube3(s) * ch, FALSE, s, 1, 48, off, 0) :
        off \in HeaderOffsets, s \in (2..MaxDeclared) \ CandidateSet, ch \in {3, 4}}

\* Headers whose declared payload does not fit the file, on lengths that are and
\* are not 4 * n^3; BGR and RGB order flags; a data offset field with a non-zero
\* high word; a header followed by cube text.
TruncatedMsFiles ==
    UNION {{MsFile(n, FALSE, decl, flag, ax, dfield, 0) :
              decl \in {17, 32, 33}, flag \in {0, 1}, ax \in {48, n + 1},
              dfield \in {48, DefaultDataOffset, n + 16}} :
           n \in {108, 256, 500, 1000, 16384, 98480, 131072}}

OddMsFiles ==
    {MsFile(n, k, 17, 1, 48, 48, hi) :
        n \in {48 + Cube3(17) * 3, DefaultDataOffset + Cube3(17) * 3},
        k \in BOOLEAN, hi \in {0, 1}}

\* Headers that declare the size 0 or 1, with no payload, with the three payload
\* bytes of one texel, and with more.
SmallDeclaredMsFiles ==
    {MsFile(n, FALSE, s, flag, 48, 48, 0) :
        s \in {0, 1}, flag \in {0, 1}, n \in {48, 51, 52, 56}}

Files ==
    RawFiles \cup ShortMsFiles \cup CandidateMsFiles \cup DeclaredMsFiles
    \cup TruncatedMsFiles \cup OddMsFiles \cup SmallDeclaredMsFiles

(***************************************************************************)
(* Calls of one function on one input                                      *)
(***************************************************************************)
NoBatch ==
    /\ fs = <<>> /\ tool = "none" /\ bin_files = <<>> /\ idx = 0
    /\ attempted = <<>> /\ successes = 0 /\ results = <<>> /\ failed = <<>>

NoRepair == entries = <<>> /\ lut_size = 0 /\ extracted = <<>> /\ rpc = "none"

NoIter == payload = <<>> /\ gen = None /\ yielded = <<>> /\ ipc = "none"

NoExtract == lut_data = <<>> /\ loc = None /\ collected = <<>> /\ xpc = "none"

Init ==
    /\ data \in Files
    /\ pc = "ready"
    /\ ret = None
    /\ out = NoFile
    /\ NoBatch
    /\ NoRepair
    /\ NoIter
    /\ NoExtract

CallParseHeader ==
    /\ pc = "ready"
    /\ pc' = "parse_ms_lut_header"
    /\ ret' = parse_ms_lut_header(data)
    /\ UNCHANGED <<data, out, batchVars, repairVars, iterVars, extractVars>>

CallConvertBinToCube ==
    /\ pc = "ready"
    /\ pc' = "convert_bin_to_cube"
    /\ ret' = convert_bin_to_cube(data).ret
    /\ out' = convert_bin_to_cube(data).out
    /\ UNCHANGED <<data, batchVars, repairVars, iterVars, extractVars>>

CallReadMsLut ==
    /\ pc = "ready"
    /\ pc' = "read_ms_lut"
    /\ ret' = read_ms_lut(data)
    /\ UNCHANGED <<data, out, batchVars, repairVars, iterVars, extractVars>>

CallReadRawRgba ==
    /\ pc = "ready"
    /\ pc' = "read_raw_rgba"
    /\ ret' = read_raw_rgba(data)
    /\ UNCHANGED <<data, out, batchVars, repairVars, iterVars, extractVars>>

CallConvertFile ==
    /\ pc = "ready"
    /\ pc' = "convert_file"
    /\ ret' = convert_file(data).ret
    /\ out' = convert_file(data).out
    /\ UNCHANGED <<data, batchVars, repairVars, iterVars, extractVars>>

Next ==
    \/ CallParseHeader
    \/ CallConvertBinToCube
    \/ CallReadMsLut
    \/ CallReadRawRgba
    \/ CallConvertFile

Spec == Init /\ [][Next]_vars

(***************************************************************************)
(* The entry list of convert_oppo_luts.convert_bin_to_cube, explicitly     *)
(*                                                                         *)
(* An entry is a triple of values n/d, each written <<n, d>>: byte / 255.0 *)
(* for an extracted entry, r / (lut_size - 1) for a padded one.  Lines     *)
(* 283-298 are the same for every lut_size; they run here on buffers cut   *)
(* for the sizes 2..MaxRepairSize, at every length, and for 17^3 entries   *)
(* with up to MaxShort bytes missing.                                      *)
(***************************************************************************)
MaxRepairSize == 4
MaxShort == 6
MaxSeed == 2

\* The byte at 0-based index i of the buffer with the given seed
ByteAt(seed, i) == (i * (2 * seed + 5) + 11 * seed) % 256

Buffer(seed, n) == [i \in 1..n |-> ByteAt(seed, i - 1)]

\* extract_byte_lut(data, lut_size, channels): entry i (0-based) is
\* (data[offset] / 255.0, data[offset + 1] / 255.0, data[offset + 2] / 255.0)
\* with offset = i * channels
extract_byte_lut(buf, size, channels) ==
    [i \in 1..ExtractCount(Len(buf), size, channels) |->
        LET offset == (i - 1) * channels
        IN <<<<buf[offset + 1], 255>>, <<buf[offset + 2], 255>>, <<buf[offset + 3], 255>>>>]

\* IdentityEntry with the roles of r and b exchanged
IdentityEntry_Swapped(index, size) ==
    LET r == index \div (size * size)
        g == (index \div size) % size
        b == index % size
    IN <<<<r, size - 1>>, <<g, size - 1>>, <<b, size - 1>>>>

\* idx = len(entries); b = idx // (lut_size * lut_size); g = (idx // lut_size) % lut_size;
\* r = idx % lut_size; (r / (lut_size-1), g / (lut_size-1), b / (lut_size-1))
IdentityEntry(index, size) ==
    LET b == index \div (size * size)
        g == (index \div size) % size
        r == index % size
    IN <<<<r, size - 1>>, <<g, size - 1>>, <<b, size - 1>>>>

\* while len(entries) < expected: entries.append(...)
RECURSIVE PadLoop(_, _)
PadLoop(list, size) ==
    IF Len(list) < Cube3(size)
    THEN PadLoop(Append(list, IdentityEntry(Len(list), size)), size)
    ELSE list

\* lines 288-298
RepairEntries(list, size) ==
    LET expected == Cube3(size)
    IN IF Len(list) > expected THEN SubSeq(list, 1, expected)
       ELSE IF Len(list) < expected THEN PadLoop(list, size)
       ELSE list

RepairSizes == 2..MaxRepairSize

\* The buffers handed to extract_byte_lut: <<lut_size, channels, length>>
RepairInputs ==
    {<<size, ch, n>> \in RepairSizes \X {3, 4} \X (0..(Cube3(MaxRepairSize) * 4 + 1)) :
        n <= Cube3(size) * ch + 1}
    \cup {<<17, ch, Cube3(17) * ch - short>> : ch \in {3, 4}, short \in 0..MaxShort}

NoCall == data = None /\ pc = "none" /\ ret = None /\ out = NoFile

InitRepair ==
    /\ \E inp \in RepairInputs, seed \in 1..MaxSeed :
          /\ lut_size = inp[1]
          /\ extracted = extract_byte_lut(Buffer(seed, inp[3]), inp[1], inp[2])
    /\ entries = extracted
    /\ rpc = "extracted"
    /\ NoCall
    /\ NoBatch
    /\ NoIter
    /\ NoExtract

\* convert_bin_to_cube from the 90% test to write_cube_file (lines 283-309)
RepairAndWrite ==
    /\ rpc = "extracted"
    /\ IF NotEnoughEntries(Len(entries), lut_size)
       THEN /\ rpc' = "failed"
            /\ out' = NoFile
            /\ UNCHANGED entries
       ELSE /\ rpc' = "written"
            /\ entries' = RepairEntries(entries, lut_size)
            /\ out' = [kind |-> "cube", lut_size |-> lut_size,
                       lines |-> Len(RepairEntries(entries, lut_size)),
                       padded |-> Len(RepairEntries(entries, lut_size)) - Len(entries)]
    /\ UNCHANGED <<data, pc, ret, lut_size, extracted, batchVars, iterVars, extractVars>>

NextRepair == RepairAndWrite

SpecRepair == InitRepair /\ [][NextRepair]_vars

\* C7: when the extraction yields size^3 - k entries (k > 0, at or above the 90%
\* threshold), the written list has exactly size^3 entries, its first size^3 - k
\* are the extracted ones unchanged, and the entry appended at linear index i is
\* (r/(size-1), g/(size-1), b/(size-1)) with r = i mod size,
\* g = (i div size) mod size, b = i div size^2.
C7_PaddingIsIdentityRamp ==
    (rpc = "written" /\ Len(extracted) < Cube3(lut_size))
    => /\ Len(entries) = Cube3(lut_size)
       /\ \A i \in 1..Len(extracted) : entries[i] = extracted[i]
       /\ \A i \in Len(extracted)..(Cube3(lut_size) - 1) :
             entries[i + 1] = <<<<i % lut_size, lut_size - 1>>,
                                <<(i \div lut_size) % lut_size, lut_size - 1>>,
                                <<i \div (lut_size * lut_size), lut_size - 1>>>>

\* C7 witness: a list of 17^3 entries written with two of them padded.
C7_Witness ==
    /\ rpc = "written"
    /\ lut_size = 17
    /\ Len(extracted) = Cube3(17) - 2
    /\ Len(entries) = Cube3(17)

(***************************************************************************)
(* The batch loops: convert_bin_to_cube.main and                           *)
(* convert_oppo_luts.process_directory                                     *)
(*                                                                         *)
(* A directory tree is a sequence of files; a file's path is its index,    *)
(* and paths sort by index.  An iteration binds the path and the result of *)
(* the converter once (\E over a one-element set).                         *)
(***************************************************************************)
MaxFiles == 2

\* File names: "bin" ends with .bin, "none" has no dot, "cube" ends with .cube
Exts == {"bin", "none", "cube"}

\* Contents: files both programs convert, files both fail on, files only one
\* converts, cube text, and files below process_directory's size filter.
BatchContents ==
    {RawFile(98304, FALSE, FALSE),
     RawFile(131072, FALSE, FALSE),
     RawFile(500, FALSE, FALSE),
     RawFile(14739, TRUE, TRUE),
     MsFile(DefaultDataOffset + Cube3(32) * 3, FALSE, 32, 1, 48, DefaultDataOffset, 0),
     MsFile(8, FALSE, 0, 0, 0, 0, 0)}

Trees ==
    UNION {[1..k -> [ext : Exts, content : BatchContents]] : k \in 0..MaxFiles}

Range(f) == {f[k] : k \in DOMAIN f}

\* sorted(...) of a collection of distinct paths
RECURSIVE SortedSeq(_)
SortedSeq(S) ==
    IF S = {} THEN <<>>
    ELSE LET m == CHOOSE x \in S : \A y \in S : x <= y
         IN <<m>> \o SortedSeq(S \ {m})

\* The orders in which a directory walk may list a set of paths
Orders(S) ==
    {q \in [1..Cardinality(S) -> S] : Range(q) = S}

\* ROOT.rglob("*.bin")
MainGlob(tree) == {p \in DOMAIN tree : tree[p].ext = "bin"}

\* os.walk: not .cube; .bin or no dot in the name; st_size > 1000
ProcessWalk(tree) ==
    {p \in DOMAIN tree :
        /\ tree[p].ext # "cube"
        /\ tree[p].ext = "bin" \/ tree[p].ext = "none"
        /\ tree[p].content.len > 1000}

InitBatch ==
    /\ fs \in Trees
    /\ tool \in {"main", "process_directory"}
    /\ pc = "start"
    /\ bin_files = <<>>
    /\ idx = 0
    /\ attempted = <<>>
    /\ successes = 0
    /\ results = <<>>
    /\ failed = <<>>
    /\ data = None /\ ret = None /\ out = NoFile
    /\ NoRepair
    /\ NoIter
    /\ NoExtract

\* main, lines 152-158
MainStart ==
    /\ tool = "main" /\ pc = "start"
    /\ bin_files' = SortedSeq(MainGlob(fs))
    /\ pc' = IF bin_files' = <<>> THEN "done" ELSE "loop"
    /\ successes' = 0
    /\ UNCHANGED <<data, ret, out, fs, tool, idx, attempted, results, failed, repairVars, iterVars, extractVars>>

\* One iteration of main's loop in which a failing file ends the loop (break)
MainIterate_Break ==
    /\ tool = "main" /\ pc = "loop" /\ idx < Len(bin_files)
    /\ \E path \in {bin_files[idx + 1]} : \E r \in {convert_file(fs[path].content)} :
          /\ attempted' = Append(attempted, path)
          /\ data' = fs[path].content
          /\ ret' = r.ret
          /\ out' = r.out
          /\ IF Raised(r.ret)
             THEN failed' = Append(failed, path) /\ pc' = "done" /\ UNCHANGED successes
             ELSE successes' = successes + 1 /\ UNCHANGED <<failed, pc>>
    /\ idx' = idx + 1
    /\ UNCHANGED <<fs, tool, bin_files, results, repairVars, iterVars, extractVars>>

\* One iteration of main's loop, lines 159-166: an exception of convert_file
\* prints [FAIL] and continues
MainIterate ==
    /\ tool = "main" /\ pc = "loop" /\ idx < Len(bin_files)
    /\ \E path \in {bin_files[idx + 1]} : \E r \in {convert_file(fs[path].content)} :
          /\ attempted' = Append(attempted, path)
          /\ data' = fs[path].content
          /\ ret' = r.ret
          /\ out' = r.out
          /\ IF Raised(r.ret)
             THEN failed' = Append(failed, path) /\ UNCHANGED successes
             ELSE successes' = successes + 1 /\ UNCHANGED failed
    /\ idx' = idx + 1
    /\ UNCHANGED <<pc, fs, tool, bin_files, results, repairVars, iterVars, extractVars>>

\* main, line 168
MainFinish ==
    /\ tool = "main" /\ pc = "loop" /\ idx = Len(bin_files)
    /\ pc' = "done"
    /\ UNCHANGED <<data, ret, out, batchVars, repairVars, iterVars, extractVars>>

\* process_directory, lines 319-340: bin_files in the order of the walk
ProcessStart ==
    /\ tool = "process_directory" /\ pc = "start"
    /\ bin_files' \in Orders(ProcessWalk(fs))
    /\ pc' = "loop"
    /\ UNCHANGED <<data, ret, out, fs, tool, idx, attempted, successes, results, failed,
                   repairVars, iterVars, extractVars>>

\* One iteration of "for bin_file in sorted(bin_files)", lines 342-353;
\* convert_bin_to_cube catches every Exception itself (lines 311-313)
ProcessIterate ==
    /\ tool = "process_directory" /\ pc = "loop" /\ idx < Len(bin_files)
    /\ \E path \in {SortedSeq(Range(bin_files))[idx + 1]} :
       \E r \in {convert_bin_to_cube(fs[path].content)} :
          /\ attempted' = Append(attempted, path)
          /\ data' = fs[path].content
          /\ ret' = r.ret
          /\ out' = r.out
          /\ IF r.ret.success
             THEN results' = Append(results, path) /\ UNCHANGED failed
             ELSE failed' = Append(failed, path) /\ UNCHANGED results
    /\ idx' = idx + 1
    /\ UNCHANGED <<pc, fs, tool, bin_files, successes, repairVars, iterVars, extractVars>>

\* process_directory, line 355
ProcessReturn ==
    /\ tool = "process_directory" /\ pc = "loop" /\ idx = Len(bin_files)
    /\ pc' = "done"
    /\ UNCHANGED <<data, ret, out, batchVars, repairVars, iterVars, extractVars>>

NextBatch ==
    \/ MainStart
    \/ MainIterate
    \/ MainFinish
    \/ ProcessStart
    \/ ProcessIterate
    \/ ProcessReturn

SpecBatch == InitBatch /\ [][NextBatch]_vars

\* The files a program discovers, from the tree
Discovered ==
    IF tool = "main"
    THEN {p \in DOMAIN fs : fs[p].ext = "bin"}
    ELSE {p \in DOMAIN fs : fs[p].ext \in {"bin", "none"} /\ fs[p].content.len > 1000}

NumSucceeded == IF tool = "main" THEN successes ELSE Len(results)

\* Steps left: a natural number that every step of a loop decreases
StepsLeft ==
    IF pc = "done" THEN 0
    ELSE IF pc = "loop" THEN 1 + Cardinality(Discovered) - idx
    ELSE 2 + Cardinality(Discovered)

BatchSafe ==
    /\ idx <= Cardinality(Discovered)
    /\ StepsLeft >= 0
    /\ attempted = SubSeq(SortedSeq(Discovered), 1, idx)
    /\ pc = "done" =>
          /\ attempted = SortedSeq(Discovered)
          /\ NumSucceeded + Len(failed) = Cardinality(Discovered)

\* C10: in both batch loops every discovered file is attempted exactly once, in
\* sorted order, whatever failed before it; the loop terminates (until it is done
\* a step is always possible, and every step decreases the number of steps left);
\* and at the end successes plus failures equal the number of discovered files.
C10_BatchNeverAborts ==
    /\ []BatchSafe
    /\ [](pc # "done" => ENABLED NextBatch)
    /\ [][StepsLeft' < StepsLeft]_vars

\* C10 witness: a finished batch of two files whose first file failed and whose
\* second was converted.
C10_Witness ==
    /\ pc = "done"
    /\ Len(attempted) = 2
    /\ failed = <<attempted[1]>>
    /\ NumSucceeded = 1

(***************************************************************************)
(* Properties of single calls (specification Spec)                         *)
(***************************************************************************)
Parsed == pc = "parse_ms_lut_header" /\ ret.kind = "header"
Remainder == data.len - ret.data_offset

\* The place of a size in the candidate list
Rank(size) == CHOOSE k \in 1..Len(CandidateSizes) : CandidateSizes[k] = size

ExactMatches(rem, sizes) ==
    {m \in sizes \X {3, 4} : Cube3(m[1]) * m[2] = rem}

NearMatches(rem, sizes) ==
    {m \in sizes \X {3, 4} : Abs(rem - Cube3(m[1]) * m[2]) <= 4}

ToleranceSet == {ToleranceSizes[k] : k \in 1..Len(ToleranceSizes)}

\* The bucket table of the fallback tier
BucketTable(n) ==
    IF n <= 14900 THEN 17 ELSE IF n <= 17000 THEN 16 ELSE IF n <= 28000 THEN 21
    ELSE IF n <= 135000 THEN 32 ELSE 33

\* C1: a headerless, non-text buffer of 98304 bytes is decoded by
\* convert_oppo_luts.convert_bin_to_cube with lut_size 32 and 3 channels per
\* sample, all 32768 entries are extracted and the conversion succeeds.
C1_Headerless98304 ==
    (pc = "convert_bin_to_cube" /\ ~data.magic /\ data.len = 98304 /\ ~IsCubeText(data))
    => /\ ret.success
       /\ ret.locals.lut_size = 32
       /\ ret.locals.channels = 3
       /\ ret.locals.n_entries = 32768

\* C2: for every buffer that starts with the magic, whatever its length,
\* parse_ms_lut_header returns a layout and never raises, and the data_offset
\* it returns is at most the total length.
C2_ParseTotal ==
    (pc = "parse_ms_lut_header" /\ data.magic)
    => /\ ret.kind = "header"
       /\ ret.data_offset <= data.len

\* C3: the tiers of parse_ms_lut_header are strictly prioritised on every
\* remainder length: an exact match size^3*3 or size^3*4 over the candidate list
\* is the result (first size in list order, channels from the formula that
\* matched); without one, a within-4-bytes match of the tolerance tier is the
\* result; only without either is the result the file-size bucket, 3 channels.
C3_TierPriority ==
    Parsed =>
        LET exact == ExactMatches(Remainder, CandidateSet)
            near == NearMatches(Remainder, ToleranceSet)
            got == <<ret.lut_size, ret.channels>>
        IN /\ exact # {} => /\ got \in exact
                            /\ \A m \in exact : Rank(got[1]) <= Rank(m[1])
           /\ (exact = {} /\ near # {}) => got \in near
           /\ (exact = {} /\ near = {}) => got = <<BucketTable(data.len), 3>>

\* C3 witness: a parse whose remainder matches a candidate exactly while the
\* file-size bucket names another size.
C3_Witness ==
    /\ Parsed
    /\ ExactMatches(Remainder, CandidateSet) # {}
    /\ ret.lut_size # BucketTable(data.len)
    /\ ret.channels = 4

TruncatedHeader ==
    /\ pc = "convert_file"
    /\ data.magic
    /\ data.len >= 48
    /\ data.data_lo + Cube3(data.size) * 3 > data.len

\* C4 (as claimed): for every magic-headed input of at least 48 bytes whose header
\* data offset plus size^3*3 exceeds the file length, read_ms_lut raises the
\* truncated-payload error and convert_file still completes successfully and
\* writes a cube.
C4_TruncatedStillConverts ==
    TruncatedHeader
    => /\ ret.ms = Raise("payload truncated")
       /\ ret.kind = "return"
       /\ out.kind = "cube"

IsRgbaCubeLen(n) == \E k \in 0..64 : 4 * Cube3(k) = n

\* C4 (amended): on such an input read_ms_lut raises ValueError ("axis block
\* truncated" when the axis table does not fit, else "payload truncated") and
\* convert_file falls back to read_raw_rgba on the whole buffer: it succeeds
\* exactly when the total length is 4*n^3, writing a cube of size n from the total
\* length, and otherwise raises and writes nothing.
C4_TruncatedFallsBackToRgba ==
    TruncatedHeader
    => /\ ret.ms = IF data.len < data.axis_offset + data.size * 4
                   THEN Raise("axis block truncated")
                   ELSE Raise("payload truncated")
       /\ IF IsRgbaCubeLen(data.len)
          THEN /\ ret.kind = "return"
               /\ ret.source_type = "rgba"
               /\ 4 * Cube3(ret.size) = data.len
               /\ out = [kind |-> "cube", lut_size |-> ret.size, lines |-> data.len \div 4]
          ELSE /\ ret.kind = "raise"
               /\ out = NoFile

\* C4 witness: a truncated header whose file still converts, as raw RGBA.
C4_Witness ==
    /\ TruncatedHeader
    /\ ret.ms = Raise("payload truncated")
    /\ ret.kind = "return"
    /\ ret.size = 32

\* C5: whenever the header declares a size s >= 2 (the u32 at 0x0C) with s^3*3 or
\* s^3*4 equal to the total length minus the payload offset, the layout uses
\* lut_size s with that channel count, also for s outside the candidate list.
C5_DeclaredSizeWins ==
    Parsed =>
        \A ch \in {3, 4} :
            (data.size >= 2 /\ Cube3(data.size) * ch = Remainder)
            => (ret.lut_size = data.size /\ ret.channels = ch)

\* C6 (as claimed): for every size of the candidate list and 3 or 4 channels, a
\* remainder within 4 bytes of size^3*channels, with no exact match, yields that
\* size and channel count.
C6_ToleranceCoversCandidates ==
    Parsed =>
        \A m \in NearMatches(Remainder, CandidateSet) :
            ExactMatches(Remainder, CandidateSet) = {}
            => (ret.lut_size = m[1] /\ ret.channels = m[2])

\* C6 (amended): the tolerance tier covers only the sizes 20, 17, 21, 25: a
\* remainder within 4 bytes of size^3*channels for one of these, with no exact
\* match, yields that size and channel count; a remainder within 4 bytes of
\* size^3*channels for size 32, 33 or 16 gets no tolerance match and the result
\* is the file-size bucket with 3 channels.
C6_ToleranceCoversNonStandard ==
    Parsed =>
        \A m \in NearMatches(Remainder, CandidateSet) :
            ExactMatches(Remainder, CandidateSet) = {}
            => IF m[1] \in {20, 17, 21, 25}
               THEN ret.lut_size = m[1] /\ ret.channels = m[2]
               ELSE ret.lut_size = BucketTable(data.len) /\ ret.channels = 3

\* C6 witness: a remainder 4 bytes away from 25^3 * 4 parsed as size 25, 4 channels.
C6_Witness ==
    /\ Parsed
    /\ Abs(Remainder - Cube3(25) * 4) = 4
    /\ ret.lut_size = 25
    /\ ret.channels = 4

Converted ==
    \/ pc = "convert_file" /\ ret.kind = "return"
    \/ pc = "convert_bin_to_cube" /\ ret.success /\ ~ret.passthrough

\* C8: every cube written by a successful binary decode (convert_file, and the
\* non-passthrough path of convert_oppo_luts.convert_bin_to_cube) holds exactly
\* N^3 colour lines, N being the value on its LUT_3D_SIZE line.
C8_CubeHasSizeCubedLines ==
    Converted => (out.kind = "cube" /\ out.lines = Cube3(out.lut_size))

\* C8 witness: a successful conversion whose extraction fell short and was padded.
C8_Witness ==
    /\ Converted
    /\ pc = "convert_bin_to_cube"
    /\ out.padded > 0
    /\ out.lut_size = 32

Extracted ==
    /\ pc = "convert_bin_to_cube"
    /\ ~ret.passthrough
    /\ ret.locals.kind = "decoded"

\* C9: whenever convert_oppo_luts.convert_bin_to_cube extracts no entry or fewer
\* than 90% of lut_size^3, it returns failure and writes no file (so pads
\* nothing); with at least 90% it succeeds and writes the cube.
C9_InsufficientEntriesFail ==
    Extracted =>
        LET n == ret.locals.n_entries
            expected == Cube3(ret.locals.lut_size)
        IN IF n = 0 \/ 10 * n < 9 * expected
           THEN ~ret.success /\ out = NoFile
           ELSE ret.success /\ out.kind = "cube"

\* C9 witness: an extraction of more than 85% and less than 90% of the entries
\* that failed.
C9_Witness ==
    /\ Extracted
    /\ 100 * ret.locals.n_entries > 85 * Cube3(ret.locals.lut_size)
    /\ 10 * ret.locals.n_entries < 9 * Cube3(ret.locals.lut_size)
    /\ ~ret.success

\* C11: no call yields a cube size below 2 that is written as LUT_3D_SIZE:
\* parse_ms_lut_header, read_ms_lut and read_raw_rgba return a size of at least 2
\* whenever they return one, and every cube a decode writes (convert_file, the
\* non-passthrough path of convert_oppo_luts.convert_bin_to_cube) carries a
\* LUT_3D_SIZE of at least 2, also for an empty file, a 4-byte file, and a header
\* declaring size 0 or 1.
C11_CubeSizeAtLeast2 ==
    /\ Parsed => ret.lut_size >= 2
    /\ (pc \in {"read_ms_lut", "read_raw_rgba"} /\ ret.kind = "lut") => ret.size >= 2
    /\ out.kind \in {"cube", "partial"} => out.lut_size >= 2

(***************************************************************************)
(* convert_bin_to_cube.iter_values, explicitly                             *)
(*                                                                         *)
(* The generator runs on the payload convert_file hands it: size^3 * 3     *)
(* bytes from read_ms_lut (orders "rgb" and "bgr"), 4 * size^3 bytes from  *)
(* read_raw_rgba (order "rgba").  A step is one resumption of the          *)
(* generator: up to its next yield, or to its end.  A yielded component    *)
(* payload[idx] * inv_255 is written <<payload[idx], 255>>.                *)
(***************************************************************************)
MaxIterSize == 3

IterOrders == {"rgb", "bgr", "rgba"}

\* base of an "rgb" or "rgba" texel block, used for "bgr" too
IterIdx_NoSwap(f) ==
    (f.g * f.size + f.b * (f.size * f.size)) * Stride(f.order) + f.r * Stride(f.order)

\* idx of the innermost loop body: base + r * 3, base + r * n2 * 3, base + r * 4
IterIdx(f) ==
    LET n2 == f.size * f.size
    IN IF f.order = "rgb" THEN (f.g * f.size + f.b * n2) * 3 + f.r * 3
       ELSE IF f.order = "bgr" THEN (f.b + f.g * f.size) * 3 + f.r * n2 * 3
       ELSE (f.g * f.size + f.b * n2) * 4 + f.r * 4

\* The loop variables at the next execution of the innermost body:
\* for b in range(size): for g in range(size): for r in range(size)
IterAdvance(f) ==
    IF f.r + 1 < f.size THEN [f EXCEPT !.r = f.r + 1]
    ELSE IF f.g + 1 < f.size THEN [f EXCEPT !.r = 0, !.g = f.g + 1]
    ELSE [f EXCEPT !.r = 0, !.g = 0, !.b = f.b + 1]

InitIter ==
    /\ \E n \in 0..MaxIterSize, o \in IterOrders, seed \in 1..MaxSeed :
          /\ payload = Buffer(seed, Cube3(n) * Stride(o))
          /\ gen = [size |-> n, order |-> o, b |-> 0, g |-> 0, r |-> 0]
    /\ yielded = <<>>
    /\ ipc = "running"
    /\ NoCall
    /\ NoBatch
    /\ NoRepair
    /\ NoExtract

\* The generator runs to its next yield; payload[idx], payload[idx + 1] and
\* payload[idx + 2] past the end of the memoryview raise IndexError
IterYield ==
    /\ ipc = "running"
    /\ gen.b < gen.size
    /\ IF IterIdx(gen) + 2 >= Len(payload)
       THEN /\ ipc' = "IndexError"
            /\ UNCHANGED <<gen, yielded>>
       ELSE /\ yielded' = Append(yielded,
                              [idx |-> IterIdx(gen),
                               triple |-> <<<<payload[IterIdx(gen) + 1], 255>>,
                                            <<payload[IterIdx(gen) + 2], 255>>,
                                            <<payload[IterIdx(gen) + 3], 255>>>>])
            /\ gen' = IterAdvance(gen)
            /\ UNCHANGED ipc
    /\ UNCHANGED <<payload, callVars, batchVars, repairVars, extractVars>>

\* range(size) of the outer loop is used up: the generator returns
IterExhaust ==
    /\ ipc = "running"
    /\ gen.b >= gen.size
    /\ ipc' = "exhausted"
    /\ UNCHANGED <<payload, gen, yielded, callVars, batchVars, repairVars, extractVars>>

NextIter ==
    \/ IterYield
    \/ IterExhaust

SpecIter == InitIter /\ [][NextIter]_vars

\* The source texel index the claim names for the canonical position pos
\* (b outer, g middle, r inner) of a cube of size n
SourceTexel(pos, n, o) ==
    LET r == pos % n
        g == (pos \div n) % n
        b == pos \div (n * n)
    IN IF o = "bgr" THEN b + g * n + r * n * n ELSE r + g * n + b * n * n

\* C12: iter_values on a payload of N^3 texels never reads a byte index outside
\* the payload; the k-th triple it yields (canonical position k: b outer, g
\* middle, r inner) is the first three bytes of the texel at source index
\* r + g*N + b*N^2 for "rgb" (stride 3) and "rgba" (stride 4, fourth byte
\* skipped) and at b + g*N + r*N^2 for "bgr"; no texel is yielded twice; and at
\* exhaustion exactly N^3 triples were yielded, one for each source texel.
C12_IterValuesBijection ==
    ipc \in {"running", "exhausted", "IndexError"} =>
        LET n == gen.size
            st == Stride(gen.order)
            texels == {yielded[k].idx \div st : k \in 1..Len(yielded)}
        IN /\ ipc # "IndexError"
           /\ \A k \in 1..Len(yielded) :
                 LET t == SourceTexel(k - 1, n, gen.order)
                 IN /\ yielded[k].idx = t * st
                    /\ yielded[k].idx >= 0 /\ yielded[k].idx + 2 < Len(payload)
                    /\ yielded[k].triple = <<<<payload[t * st + 1], 255>>,
                                             <<payload[t * st + 2], 255>>,
                                             <<payload[t * st + 3], 255>>>>
           /\ Cardinality(texels) = Len(yielded)
           /\ ipc = "exhausted" =>
                 /\ Len(yielded) = Cube3(n)
                 /\ texels = 0..(Cube3(n) - 1)

\* C12 witness: a blue-fastest payload of 27 texels read to exhaustion, whose
\* second triple came from source texel 9.
C12_Witness ==
    /\ ipc = "exhausted"
    /\ gen.order = "bgr"
    /\ gen.size = 3
    /\ Len(yielded) = 27
    /\ yielded[2].idx = 27

(***************************************************************************)
(* convert_oppo_luts.extract_lut_data and extract_byte_lut, explicitly     *)
(*                                                                         *)
(* Both functions run the same loop; a step is one pass of its body.  The  *)
(* loop does not depend on what lut_size is beyond range(lut_size ** 3):   *)
(* it runs here for the sizes 2..MaxExtractSize on buffers of every length *)
(* up to one entry more than lut_size^3, and for lut_size 17 on buffers of *)
(* up to MaxPayload bytes.  An entry byte / 255.0 is written <<byte, 255>>.*)
(***************************************************************************)
MaxExtractSize == 3
MaxPayload == 12

\* data[from:] for from >= 0
SliceFrom(buf, from) ==
    IF from >= Len(buf) THEN <<>> ELSE SubSeq(buf, from + 1, Len(buf))

\* <<lut_size, channels, len(data)>>
ExtractInputs ==
    {<<size, ch, n>> \in (2..MaxExtractSize) \X {3, 4}
                         \X (0..(Cube3(MaxExtractSize) * 4 + 5)) :
        n <= Cube3(size) * ch + ch + 1}
    \cup {<<17, ch, n>> : ch \in {3, 4}, n \in 0..MaxPayload}

\* header['data_offset'] of the buffers handed to extract_lut_data: the start of
\* the buffer, inside it, or past its end
ExtractOffsets(n) == {0, 2, n + 1}

\* extract_byte_lut(data, lut_size, channels) at line 182
InitExtractByteLut ==
    \E inp \in ExtractInputs, seed \in 1..MaxSeed :
        /\ lut_data = Buffer(seed, inp[3])
        /\ loc = [fn |-> "extract_byte_lut", lut_size |-> inp[1], channels |-> inp[2],
                  data_len |-> inp[3], data_offset |-> 0, i |-> 0]

\* extract_lut_data(data, header) at line 139: lut_data = data[data_offset:]
InitExtractLutData ==
    \E inp \in ExtractInputs, seed \in 1..MaxSeed :
    \E off \in ExtractOffsets(inp[3]) :
        /\ lut_data = SliceFrom(Buffer(seed, inp[3]), off)
        /\ loc = [fn |-> "extract_lut_data", lut_size |-> inp[1], channels |-> inp[2],
                  data_len |-> inp[3], data_offset |-> off, i |-> 0]

InitExtract ==
    /\ InitExtractByteLut \/ InitExtractLutData
    /\ collected = <<>>
    /\ xpc = "loop"
    /\ NoCall
    /\ NoBatch
    /\ NoRepair
    /\ NoIter

\* The break test with only the first byte of the entry required
BreakTest_FirstByte(offset, n_bytes) == offset + 1 > n_bytes

\* if offset + 3 > len(lut_data): break
BreakTest(offset, n_bytes) == offset + 3 > n_bytes

\* r = lut_data[offset] / 255.0, g = lut_data[offset + 1] / 255.0,
\* b = lut_data[offset + 2] / 255.0; entries.append((r, g, b));
\* an index at or past len(lut_data) raises IndexError
ExtractAppend ==
    /\ xpc = "loop"
    /\ loc.i < Cube3(loc.lut_size)
    /\ ~BreakTest(loc.i * loc.channels, Len(lut_data))
    /\ IF loc.i * loc.channels + 2 >= Len(lut_data)
       THEN /\ xpc' = "IndexError"
            /\ UNCHANGED <<loc, collected>>
       ELSE /\ collected' = Append(collected,
                                [offset |-> loc.i * loc.channels,
                                 entry |-> <<<<lut_data[loc.i * loc.channels + 1], 255>>,
                                             <<lut_data[loc.i * loc.channels + 2], 255>>,
                                             <<lut_data[loc.i * loc.channels + 3], 255>>>>])
            /\ loc' = [loc EXCEPT !.i = loc.i + 1]
            /\ UNCHANGED xpc
    /\ UNCHANGED <<lut_data, callVars, batchVars, repairVars, iterVars>>

\* break, then return entries
ExtractBreak ==
    /\ xpc = "loop"
    /\ loc.i < Cube3(loc.lut_size)
    /\ BreakTest(loc.i * loc.channels, Len(lut_data))
    /\ xpc' = "returned"
    /\ UNCHANGED <<lut_data, loc, collected, callVars, batchVars, repairVars, iterVars>>

\* range(num_entries) is used up: return entries
ExtractReturn ==
    /\ xpc = "loop"
    /\ loc.i >= Cube3(loc.lut_size)
    /\ xpc' = "returned"
    /\ UNCHANGED <<lut_data, loc, collected, callVars, batchVars, repairVars, iterVars>>

NextExtract ==
    \/ ExtractAppend
    \/ ExtractBreak
    \/ ExtractReturn

SpecExtract == InitExtract /\ [][NextExtract]_vars

\* The number of entries i with i * channels + 3 <= n_bytes
Available(n_bytes, channels) ==
    Cardinality({k \in 0..n_bytes : k * channels + 3 <= n_bytes})

\* C13: extract_lut_data and extract_byte_lut never read a byte outside the
\* buffer; the entries come in source order, entry i from the bytes i*channels,
\* i*channels+1, i*channels+2 of the payload; and the list returned has exactly
\* min(available, lut_size^3) entries, available being the number of i with
\* i*channels + 3 <= payload length, for 3 and 4 channels and every payload
\* length from zero on (the payload of extract_lut_data is data[data_offset:]).
C13_ExtractWithinBuffer ==
    xpc \in {"loop", "returned", "IndexError"} =>
        /\ xpc # "IndexError"
        /\ Len(lut_data) = SliceFromLen(loc.data_len, loc.data_offset)
        /\ \A k \in 1..Len(collected) :
              LET offset == (k - 1) * loc.channels
              IN /\ collected[k].offset = offset
                 /\ offset + 2 < Len(lut_data)
                 /\ collected[k].entry = <<<<lut_data[offset + 1], 255>>,
                                           <<lut_data[offset + 2], 255>>,
                                           <<lut_data[offset + 3], 255>>>>
        /\ xpc = "returned" =>
              /\ Len(collected) = Min(Available(Len(lut_data), loc.channels),
                                      Cube3(loc.lut_size))
              /\ [k \in 1..Len(collected) |-> collected[k].entry]
                     = extract_byte_lut(lut_data, loc.lut_size, loc.channels)

\* C13 witness: extract_lut_data for lut_size 17 and 4 channels on a payload of
\* 10 bytes behind a data offset of 2, returned with the two entries that fit.
C13_Witness ==
    /\ xpc = "returned"
    /\ loc.fn = "extract_lut_data"
    /\ loc.lut_size = 17
    /\ loc.channels = 4
    /\ loc.data_offset = 2
    /\ Len(lut_data) = 10
    /\ Len(collected) = 2

====
